---- MODULE Spec2Model ----
(***************************************************************************)
(* SiteAuditor front end: the two client-side protocol consumers, the home *)
(* page that runs the first of them, and the API key settings.             *)
(*                                                                         *)
(*   - useAnalyzeStream.analyzeUrlStream (hooks/useAnalyzeStream.ts):      *)
(*     reads a fetch body chunk by chunk, decodes it, splits it on         *)
(*     newlines and handles one JSON message per complete line.            *)
(*   - analyzeUrl / analyzeUrlSync (lib/api.ts): starts a background       *)
(*     task, polls its status, falls back to the legacy endpoint on 404.   *)
(*   - Home (app/page.tsx): the page state and its handlers handleSearch,  *)
(*     handleBack and handleRescan, with the save mutation of              *)
(*     hooks/useScan.ts.                                                   *)
(*   - healthCheck (lib/api.ts).                                           *)
(*   - ApiKeysManager (components/settings/api-keys-manager.tsx): the      *)
(*     list of API keys, fetchKeys, handleCreateKey and handleDeleteKey.   *)
(*                                                                         *)
(* Text is a sequence of one-character strings.  The response body is a    *)
(* sequence of bytes; the byte pair <<LEAD, CONT>> is the UTF-8 encoding   *)
(* of the single character EACUTE, every other byte is an ASCII character. *)
(* A JSON message is written in a fixed-width shorthand:                   *)
(*     L s m   stands for {"type":"log","step":s,"message":m}              *)
(*     C d     stands for {"type":"complete","data":d}     (d = 0: null)   *)
(*     E m     stands for {"type":"error","message":m}                     *)
(*     F       stands for {"type":"error"}         (new Error(undefined))  *)
(*     U       stands for {"type":"other"}                                 *)
(*     0       stands for the JSON value null                              *)
(* and anything else, a proper prefix of a message included, is not valid  *)
(* JSON.                                                                   *)
(***************************************************************************)
EXTENDS Integers, Sequences, FiniteSets, TLC

VARIABLES
    \* ---- useAnalyzeStream ----
    spc,          \* position of analyzeUrlStream: idle, fetching, reading, resolved, rejected
    endpoint,     \* the url and lang of the request (useAnalyzeStream.ts:39-40)
    fetches,      \* fetch calls issued by this invocation (useAnalyzeStream.ts:43)
    response,     \* const response (useAnalyzeStream.ts:43): none, failed, notok, nobody, ok
    readError,    \* history: a read of the body (reader.read(), response.text()) rejected
    logs,         \* useState<string[]>     (useAnalyzeStream.ts:31)
    currentStep,  \* useState<string|null>  (useAnalyzeStream.ts:32)
    finalResult,  \* let finalResult        (useAnalyzeStream.ts:53)
    buffer,       \* let buffer             (useAnalyzeStream.ts:54)
    decoder,      \* bytes the TextDecoder holds back between decode calls
    body,         \* bytes of the response body (fixed when the response arrives)
    pos,          \* number of body bytes the reader has handed out
    done,         \* const { done } of the last read (useAnalyzeStream.ts:57)
    parsed,       \* history: the lines handed to JSON.parse in this invocation
    sret,         \* value analyzeUrlStream resolved with
    serr,         \* message of the error analyzeUrlStream rejected with
    \* ---- analyzeUrl ----
    apc,          \* position of analyzeUrl: idle, start, wait, get, legacy, resolved, rejected
    request,      \* const request          (api.ts:26)
    startResp,    \* the response to the start POST
    taskId,       \* const { task_id }      (api.ts:48)
    i,            \* loop variable          (api.ts:51)
    task,         \* const task             (api.ts:58)
    posts,        \* POSTs issued to /api/analyze/async
    gets,         \* GETs issued to /api/tasks/{task_id}
    waits,        \* POLL_INTERVAL timers started
    legacyPosts,  \* POSTs issued to /api/analyze
    legacyBody,   \* payload of the legacy POST
    legacyResp,   \* the response to the legacy POST
    seen,         \* history: kinds of the status responses received
    lastKind,     \* history: kind of the last status response received
    transport,    \* history: the request that rejected: none, start, status, legacy
    delay,        \* delay of the last setTimeout (api.ts:52)
    aret,         \* value analyzeUrl resolved with
    aerr,         \* error analyzeUrl rejected with: [name, status, message]
    \* ---- Home ----
    state,            \* useState<AppState>("idle")               (page.tsx:23)
    results,          \* useState<AnalyzeResponse | null>(null)   (page.tsx:25)
    error,            \* useState<string | null>(null)            (page.tsx:26)
    isAuthenticated,  \* useAuth().isAuthenticated                (page.tsx:21)
    hpc,              \* position of the handleSearch run: none, awaiting, delay
    authSeen,         \* isAuthenticated as the running handleSearch closed over it
    data,             \* const data of the running handleSearch   (page.tsx:75)
    running,          \* handleSearch runs started and not ended
    saved,            \* mutateSaveScan calls of the last handleSearch run
    token,            \* localStorage item access_token            (useScan.ts:37)
    saveRequests,     \* POSTs to /api/audits/ issued for the last run
    \* ---- healthCheck ----
    health,       \* position: idle, fetching, resolved, rejected
    healthResp,   \* history: the response, or that the request failed
    healthRet,    \* value healthCheck resolved with
    \* ---- ApiKeysManager ----
    user,         \* useAuth().user: null or the user's plan tier
    keys,         \* useState<ApiKey[]>([]): the ids of the keys displayed
    loading,      \* useState(true)
    createdKey,   \* useState<NewKeyResponse | null>(null): <<>> or <<id>>
    keyFetches,   \* fetchKeys calls whose GET is outstanding
    creates,      \* handleCreateKey calls whose POST is outstanding
    deletes,      \* handleDeleteKey calls whose DELETE is outstanding: the id
                  \* and the keys of the render the handler was created in
    lastDelete    \* history: how the last DELETE ended: none, ok, notok, failed

streamVars == <<spc, endpoint, fetches, response, readError, logs, currentStep, finalResult, buffer, decoder, body, pos,
                done, parsed, sret, serr>>
pollVars == <<apc, request, startResp, taskId, i, task, posts, gets, waits,
              legacyPosts, legacyBody, legacyResp, seen, lastKind, transport, delay,
              aret, aerr>>
pageVars == <<state, results, error, isAuthenticated, hpc, authSeen, data, running, saved,
              token, saveRequests>>
healthVars == <<health, healthResp, healthRet>>
keyVars == <<user, keys, loading, createdKey, keyFetches, creates, deletes, lastDelete>>
vars == <<streamVars, pollVars, pageVars, healthVars, keyVars>>

----------------------------------------------------------------------------
(* JavaScript values *)

Null == "null"
Undefined == "undefined"

\* ToBoolean on the values that occur here: strings, null and undefined.
Truthy(v) == v \notin {Null, Undefined, ""}

\* a || b
OrElse(a, b) == IF Truthy(a) THEN a ELSE b

----------------------------------------------------------------------------
(* Bytes and characters *)

NL == "\n"
SP == " "
LEAD == "xC3"
CONT == "xA9"
EACUTE == "U+00E9"
FFFD == "U+FFFD"

\* new TextDecoder().decode(bytes, {stream: true}) on held \o bytes: the
\* decoded text and the incomplete sequence held back for the next call.
RECURSIVE Utf8Decode(_)
Utf8Decode(bs) ==
    IF bs = <<>> THEN [text |-> <<>>, held |-> <<>>]
    ELSE IF Head(bs) = LEAD
         THEN IF Len(bs) = 1 THEN [text |-> <<>>, held |-> bs]
              ELSE IF bs[2] = CONT
                   THEN LET r == Utf8Decode(SubSeq(bs, 3, Len(bs)))
                        IN  [text |-> <<EACUTE>> \o r.text, held |-> r.held]
                   ELSE LET r == Utf8Decode(Tail(bs))
                        IN  [text |-> <<FFFD>> \o r.text, held |-> r.held]
         ELSE LET r == Utf8Decode(Tail(bs))
              IN  [text |-> <<IF Head(bs) = CONT THEN FFFD ELSE Head(bs)>> \o r.text,
                   held |-> r.held]

decode(held, bytes) == Utf8Decode(held \o bytes)

\* String.prototype.split("\n"): the segments between newlines, at least one.
RECURSIVE split(_)
split(s) ==
    IF \A k \in 1..Len(s) : s[k] # NL THEN <<s>>
    ELSE LET k == CHOOSE k \in 1..Len(s) : s[k] = NL /\ \A j \in 1..(k-1) : s[j] # NL
         IN  <<SubSeq(s, 1, k-1)>> \o split(SubSeq(s, k+1, Len(s)))

\* String.prototype.trim()
RECURSIVE trim(_)
trim(s) ==
    IF s = <<>> THEN s
    ELSE IF Head(s) = SP THEN trim(Tail(s))
    ELSE IF s[Len(s)] = SP THEN trim(SubSeq(s, 1, Len(s) - 1))
    ELSE s

\* JSON.parse(line).  The outcome is a record whose type field is the
\* message's type, "null" for the JSON value null, or "SyntaxError" when
\* the parse throws.  Surrounding white space is allowed by JSON.
SyntaxError == [type |-> "SyntaxError"]
JsonNull == [type |-> "null"]
Structural == {"L", "C", "E", "F", "U", SP, NL}
JSONparse(line) ==
    LET t == trim(line)
    IN  IF t = <<"0">> THEN JsonNull
        ELSE IF Len(t) = 3 /\ t[1] = "L" /\ {t[2], t[3]} \cap Structural = {}
             THEN [type |-> "log", step |-> t[2], message |-> t[3]]
        ELSE IF Len(t) = 2 /\ t[1] = "C" /\ t[2] \notin Structural
             THEN [type |-> "complete", data |-> IF t[2] = "0" THEN Null ELSE t[2]]
        ELSE IF Len(t) = 2 /\ t[1] = "E" /\ t[2] \notin Structural
             THEN [type |-> "error", message |-> t[2]]
        ELSE IF t = <<"F">> THEN [type |-> "error", message |-> ""]
        ELSE IF t = <<"U">> THEN [type |-> "other"]
        ELSE SyntaxError

----------------------------------------------------------------------------
(* analyzeUrlStream: the body of the read loop *)

NoError == "none"

\* handleLine in which a complete message also shows as the current step.
handleLineCompleteStep(line, st) ==
    IF trim(line) = <<>> THEN st
    ELSE LET msg == JSONparse(line)
             st1 == [st EXCEPT !.parsed = Append(@, line)]
         IN  IF msg.type = "SyntaxError" THEN st1
             ELSE IF msg.type = "null" THEN st1
             ELSE IF msg.type = "log"
                  THEN [st1 EXCEPT !.logs = Append(@, msg.message), !.step = msg.step]
             ELSE IF msg.type = "complete"
                  THEN [st1 EXCEPT !.final = msg.data, !.step = "complete"]
             ELSE IF msg.type = "error"
                  THEN [st1 EXCEPT !.thrown = msg.message]
             ELSE st1

\* handleLine in which the first complete message wins
\* (finalResult = finalResult || msg.data).
handleLineKeepsFirst(line, st) ==
    IF trim(line) = <<>> THEN st
    ELSE LET msg == JSONparse(line)
             st1 == [st EXCEPT !.parsed = Append(@, line)]
         IN  IF msg.type = "SyntaxError" THEN st1
             ELSE IF msg.type = "null" THEN st1
             ELSE IF msg.type = "log"
                  THEN [st1 EXCEPT !.logs = Append(@, msg.message), !.step = msg.step]
             ELSE IF msg.type = "complete"
                  THEN [st1 EXCEPT !.final = OrElse(@, msg.data)]
             ELSE IF msg.type = "error"
                  THEN [st1 EXCEPT !.thrown = msg.message]
             ELSE st1

\* handleLine without the try/catch around JSON.parse: the SyntaxError
\* leaves the loop like the throw of an error message.
handleLineStrict(line, st) ==
    IF trim(line) = <<>> THEN st
    ELSE LET msg == JSONparse(line)
             st1 == [st EXCEPT !.parsed = Append(@, line)]
         IN  IF msg.type = "SyntaxError" THEN [st1 EXCEPT !.thrown = "SyntaxError"]
             ELSE IF msg.type = "null" THEN st1
             ELSE IF msg.type = "log"
                  THEN [st1 EXCEPT !.logs = Append(@, msg.message), !.step = msg.step]
             ELSE IF msg.type = "complete"
                  THEN [st1 EXCEPT !.final = msg.data]
             ELSE IF msg.type = "error"
                  THEN [st1 EXCEPT !.thrown = msg.message]
             ELSE st1

\* handleLine with the log message put in front of the earlier ones.
handleLinePrepend(line, st) ==
    IF trim(line) = <<>> THEN st
    ELSE LET msg == JSONparse(line)
             st1 == [st EXCEPT !.parsed = Append(@, line)]
         IN  IF msg.type = "SyntaxError" THEN st1
             ELSE IF msg.type = "null" THEN st1
             ELSE IF msg.type = "log"
                  THEN [st1 EXCEPT !.logs = <<msg.message>> \o @, !.step = msg.step]
             ELSE IF msg.type = "complete"
                  THEN [st1 EXCEPT !.final = msg.data]
             ELSE IF msg.type = "error"
                  THEN [st1 EXCEPT !.thrown = msg.message]
             ELSE st1

\* One iteration of `for (const line of lines)` on the loop state
\* st = [logs, step, final, parsed, thrown].
handleLine(line, st) ==
    IF trim(line) = <<>> THEN st
    ELSE LET msg == JSONparse(line)
             st1 == [st EXCEPT !.parsed = Append(@, line)]
         IN  IF msg.type = "SyntaxError" THEN st1
             ELSE IF msg.type = "null" THEN st1
             ELSE IF msg.type = "log"
                  THEN [st1 EXCEPT !.logs = Append(@, msg.message), !.step = msg.step]
             ELSE IF msg.type = "complete"
                  THEN [st1 EXCEPT !.final = msg.data]
             ELSE IF msg.type = "error"
                  THEN [st1 EXCEPT !.thrown = msg.message]
             ELSE st1

\* The for loop: lines in order, left by the throw of an error message.
RECURSIVE forLines(_, _)
\* forLines that notes the error and throws it only after the last line.
forLinesThrowLate(lines, st) ==
    IF lines = <<>> THEN st
    ELSE forLines(Tail(lines),
                  [handleLine(Head(lines), [st EXCEPT !.thrown = NoError])
                     EXCEPT !.thrown = IF st.thrown # NoError THEN st.thrown ELSE @])

forLines(lines, st) ==
    IF lines = <<>> \/ st.thrown # NoError THEN st
    ELSE forLines(Tail(lines), handleLine(Head(lines), st))

\* retain that drops the incomplete segment.
retainNothing(lines) == <<>>

\* lines.pop() || ""
retain(lines) == lines[Len(lines)]

\* onChunk whose log lines all append to the logs of the start of the
\* chunk (setLogs([...logs, m]) in place of setLogs(prev => [...prev, m])).
onChunkStaleLogs(chunk, held, buf, st) ==
    LET d == decode(held, chunk)
        lines == split(buf \o d.text)
        st2 == forLines(SubSeq(lines, 1, Len(lines) - 1), st)
    IN  [held |-> d.held, buf |-> retain(lines),
         st |-> [st2 EXCEPT !.logs = IF Len(st2.logs) > Len(st.logs)
                                     THEN Append(st.logs, st2.logs[Len(st2.logs)])
                                     ELSE st.logs]]

\* The loop body after a read that returned a chunk.
onChunk(chunk, held, buf, st) ==
    LET d == decode(held, chunk)
        lines == split(buf \o d.text)
        st2 == forLines(SubSeq(lines, 1, Len(lines) - 1), st)
    IN  [held |-> d.held, buf |-> retain(lines), st |-> st2]

NoResult == "Stream ended without result."
NoStream == "ReadableStream not supported by browser."
NetworkError == "TypeError: Failed to fetch"

----------------------------------------------------------------------------
(* The inputs of analyzeUrlStream *)

MaxLines == 3

StreamUrls == {"https://a.example"}
StreamLangs == {"en"}
Langs == {"en", "fr"}

LogA == <<"L", "s", "a">>
LogB == <<"L", "t", LEAD, CONT>>
CompleteR == <<"C", "r">>
CompleteQ == <<"C", "q">>
CompleteNull == <<"C", "0">>
ErrorE == <<"E", "e">>
OtherU == <<"U">>
NullLine == <<"0">>
Garbage == <<"L", LEAD>>
Blank == <<SP>>

LineSet == {LogA, LogB, CompleteR, CompleteQ, CompleteNull, ErrorE, OtherU,
            NullLine, Garbage, Blank}

\* The lines, each followed by a newline.
RECURSIVE joinLines(_)
joinLines(ls) ==
    IF ls = <<>> THEN <<>> ELSE Head(ls) \o <<NL>> \o joinLines(Tail(ls))

\* Response bodies: up to MaxLines lines, the last one with or without its
\* terminating newline.
Bodies ==
    LET scripts == UNION {[1..n -> LineSet] : n \in 0..MaxLines}
    IN  {joinLines(sc) : sc \in scripts}
        \cup {SubSeq(joinLines(sc), 1, Len(joinLines(sc)) - 1) : sc \in scripts \ {<<>>}}

HttpErrors == {500, 429}
ErrTexts == {"", "busy"}

----------------------------------------------------------------------------
(* analyzeUrlStream *)

StreamInit ==
    /\ spc = "idle"
    /\ logs = <<>>
    /\ currentStep = Null
    /\ endpoint = <<>>
    /\ fetches = 0
    /\ response = "none"
    /\ readError = FALSE
    /\ finalResult = Null
    /\ buffer = <<>>
    /\ decoder = <<>>
    /\ body = <<>>
    /\ pos = 0
    /\ done = FALSE
    /\ parsed = <<>>
    /\ sret = Undefined
    /\ serr = <<>>

\* The locals of one activation (useAnalyzeStream.ts:51-54) and its history.
freshLocals ==
    /\ finalResult' = Null
    /\ buffer' = <<>>
    /\ decoder' = <<>>
    /\ body' = <<>>
    /\ pos' = 0
    /\ done' = FALSE
    /\ parsed' = <<>>
    /\ sret' = Undefined
    /\ serr' = <<>>

\* Invoke without lines 35-36: logs and currentStep are left as they are.
InvokeNoReset(url, lang) ==
    /\ spc \in {"idle", "resolved", "rejected"}
    /\ UNCHANGED <<logs, currentStep>>
    /\ endpoint' = <<url, lang>>
    /\ fetches' = 1
    /\ response' = "none"
    /\ readError' = FALSE
    /\ spc' = "fetching"
    /\ freshLocals
    /\ UNCHANGED <<pollVars, pageVars, healthVars, keyVars>>

\* analyzeUrlStream(url, lang) up to `await fetch(endpoint)`.
analyzeUrlStream(url, lang) ==
    /\ logs' = <<>>
    /\ currentStep' = "init"
    /\ endpoint' = <<url, lang>>
    /\ fetches' = 1
    /\ response' = "none"
    /\ readError' = FALSE
    /\ spc' = "fetching"
    /\ freshLocals

\* A caller invokes analyzeUrlStream while no invocation is under way.
Invoke(url, lang) ==
    /\ spc \in {"idle", "resolved", "rejected"}
    /\ analyzeUrlStream(url, lang)
    /\ UNCHANGED <<pollVars, pageVars, healthVars, keyVars>>

streamThrow(message) ==
    /\ spc' = "rejected"
    /\ serr' = message

\* fetch rejects.
FetchFails ==
    /\ spc = "fetching"
    /\ response' = "failed"
    /\ streamThrow(<<NetworkError>>)
    /\ UNCHANGED <<logs, currentStep, endpoint, fetches, readError, finalResult, buffer, decoder, body,
                   pos, done, parsed, sret>>
    /\ UNCHANGED <<pollVars, pageVars, healthVars, keyVars>>

\* FetchNotOk without the throw: the body of the error response is read
\* as the line stream.
FetchNotOkReads(status, errText) ==
    /\ spc = "fetching"
    /\ response' = "notok"
    /\ spc' = "reading"
    /\ \E b \in Bodies : body' = b
    /\ finalResult' = Null
    /\ buffer' = <<>>
    /\ decoder' = <<>>
    /\ UNCHANGED <<logs, currentStep, endpoint, fetches, readError, pos, done, parsed,
                   sret, serr>>
    /\ UNCHANGED <<pollVars, pageVars, healthVars, keyVars>>

\* The response is not OK: `Analyze failed: ${status} - ${errText}`.
FetchNotOk(status, errText) ==
    /\ spc = "fetching"
    /\ response' = "notok"
    /\ streamThrow(<<"Analyze failed: ", status, " - ", errText>>)
    /\ UNCHANGED <<logs, currentStep, endpoint, fetches, readError, finalResult, buffer, decoder, body,
                   pos, done, parsed, sret>>
    /\ UNCHANGED <<pollVars, pageVars, healthVars, keyVars>>

\* The response is not OK and `await response.text()` rejects: the failure
\* of the read is what the call is rejected with.
ErrTextFails ==
    /\ spc = "fetching"
    /\ response' = "notok"
    /\ readError' = TRUE
    /\ streamThrow(<<NetworkError>>)
    /\ UNCHANGED <<logs, currentStep, endpoint, fetches, finalResult, buffer, decoder, body,
                   pos, done, parsed, sret>>
    /\ UNCHANGED <<pollVars, pageVars, healthVars, keyVars>>

\* FetchNoBody that goes on to read, as on a response with an empty body.
FetchNoBodyReads ==
    /\ spc = "fetching"
    /\ response' = "nobody"
    /\ spc' = "reading"
    /\ body' = <<>>
    /\ finalResult' = Null
    /\ buffer' = <<>>
    /\ decoder' = <<>>
    /\ UNCHANGED <<logs, currentStep, endpoint, fetches, readError, pos, done, parsed,
                   sret, serr>>
    /\ UNCHANGED <<pollVars, pageVars, healthVars, keyVars>>

\* The response is OK and has no body.
FetchNoBody ==
    /\ spc = "fetching"
    /\ response' = "nobody"
    /\ streamThrow(<<NoStream>>)
    /\ UNCHANGED <<logs, currentStep, endpoint, fetches, readError, finalResult, buffer, decoder, body,
                   pos, done, parsed, sret>>
    /\ UNCHANGED <<pollVars, pageVars, healthVars, keyVars>>

\* The response is OK and has a body: the reader, the decoder and the
\* locals are set up and the first read is issued.
fetchOk(bodies) ==
    /\ spc = "fetching"
    /\ spc' = "reading"
    /\ response' = "ok"
    /\ \E b \in bodies : body' = b
    /\ finalResult' = Null
    /\ buffer' = <<>>
    /\ decoder' = <<>>
    /\ UNCHANGED <<logs, currentStep, endpoint, fetches, readError, pos, done, parsed,
                   sret, serr>>
    /\ UNCHANGED <<pollVars, pageVars, healthVars, keyVars>>

FetchOk == fetchOk(Bodies)

\* readChunk that returns the result as soon as a complete message has
\* been captured.
readChunkReturnsOnComplete(n) ==
    /\ LET r == onChunk(SubSeq(body, pos + 1, pos + n), decoder, buffer,
                        [logs |-> logs, step |-> currentStep, final |-> finalResult,
                         parsed |-> parsed, thrown |-> NoError])
       IN  /\ decoder' = r.held
           /\ buffer' = r.buf
           /\ logs' = r.st.logs
           /\ currentStep' = r.st.step
           /\ finalResult' = r.st.final
           /\ parsed' = r.st.parsed
           /\ IF r.st.thrown # NoError
              THEN streamThrow(<<r.st.thrown>>) /\ UNCHANGED sret
              ELSE IF Truthy(r.st.final)
              THEN spc' = "resolved" /\ sret' = r.st.final /\ UNCHANGED serr
              ELSE UNCHANGED <<spc, serr, sret>>
    /\ pos' = pos + n
    /\ UNCHANGED <<endpoint, fetches, response, readError, body, done>>
    /\ UNCHANGED <<pollVars, pageVars, healthVars, keyVars>>

\* The loop body for a read that returned the next n bytes: decode, split,
\* handle the complete lines, keep the rest; an error message throws.
readChunk(n) ==
    /\ LET r == onChunk(SubSeq(body, pos + 1, pos + n), decoder, buffer,
                        [logs |-> logs, step |-> currentStep, final |-> finalResult,
                         parsed |-> parsed, thrown |-> NoError])
       IN  /\ decoder' = r.held
           /\ buffer' = r.buf
           /\ logs' = r.st.logs
           /\ currentStep' = r.st.step
           /\ finalResult' = r.st.final
           /\ parsed' = r.st.parsed
           /\ IF r.st.thrown # NoError
              THEN streamThrow(<<r.st.thrown>>)
              ELSE UNCHANGED <<spc, serr>>
    /\ pos' = pos + n
    /\ UNCHANGED <<endpoint, fetches, response, readError, body, done, sret>>
    /\ UNCHANGED <<pollVars, pageVars, healthVars, keyVars>>

\* reader.read() returns a chunk: any positive number of the bytes that
\* have not been handed out yet.
ReadChunk ==
    /\ spc = "reading"
    /\ \E n \in 1..(Len(body) - pos) : readChunk(n)

\* ReadDone that succeeds whenever a complete message was received,
\* whatever its data.
ReadDoneOnArrival ==
    /\ spc = "reading"
    /\ pos = Len(body)
    /\ done' = TRUE
    /\ IF \E k \in 1..Len(parsed) : JSONparse(parsed[k]).type = "complete"
       THEN spc' = "resolved" /\ sret' = finalResult /\ UNCHANGED serr
       ELSE streamThrow(<<NoResult>>) /\ UNCHANGED sret
    /\ UNCHANGED <<logs, currentStep, endpoint, fetches, response, readError,
                   finalResult, buffer, decoder, body, pos, parsed>>
    /\ UNCHANGED <<pollVars, pageVars, healthVars, keyVars>>

\* ReadDone that handles what is left in the buffer as a last line.
ReadDoneFlushes ==
    /\ spc = "reading"
    /\ pos = Len(body)
    /\ done' = TRUE
    /\ LET st == handleLine(buffer, [logs |-> logs, step |-> currentStep,
                                     final |-> finalResult, parsed |-> parsed,
                                     thrown |-> NoError])
       IN  /\ logs' = st.logs
           /\ currentStep' = st.step
           /\ finalResult' = st.final
           /\ parsed' = st.parsed
           /\ IF st.thrown # NoError THEN streamThrow(<<st.thrown>>) /\ UNCHANGED sret
              ELSE IF ~Truthy(st.final) THEN streamThrow(<<NoResult>>) /\ UNCHANGED sret
              ELSE spc' = "resolved" /\ sret' = st.final /\ UNCHANGED serr
    /\ buffer' = <<>>
    /\ UNCHANGED <<endpoint, fetches, response, readError, decoder, body, pos>>
    /\ UNCHANGED <<pollVars, pageVars, healthVars, keyVars>>

\* ReadDone without the check of line 91.
ReadDoneUnchecked ==
    /\ spc = "reading"
    /\ pos = Len(body)
    /\ done' = TRUE
    /\ spc' = "resolved" /\ sret' = finalResult /\ UNCHANGED serr
    /\ UNCHANGED <<logs, currentStep, endpoint, fetches, response, readError,
                   finalResult, buffer, decoder, body, pos, parsed>>
    /\ UNCHANGED <<pollVars, pageVars, healthVars, keyVars>>

\* reader.read() returns done: leave the loop, lines 91-92.
ReadDone ==
    /\ spc = "reading"
    /\ pos = Len(body)
    /\ done' = TRUE
    /\ IF ~Truthy(finalResult)
       THEN streamThrow(<<NoResult>>) /\ UNCHANGED sret
       ELSE spc' = "resolved" /\ sret' = finalResult /\ UNCHANGED serr
    /\ UNCHANGED <<logs, currentStep, endpoint, fetches, response, readError,
                   finalResult, buffer, decoder, body, pos, parsed>>
    /\ UNCHANGED <<pollVars, pageVars, healthVars, keyVars>>

\* reader.read() rejects.
ReadFails ==
    /\ spc = "reading"
    /\ readError' = TRUE
    /\ streamThrow(<<NetworkError>>)
    /\ UNCHANGED <<logs, currentStep, endpoint, fetches, response, finalResult, buffer, decoder, body,
                   pos, done, parsed, sret>>
    /\ UNCHANGED <<pollVars, pageVars, healthVars, keyVars>>

StreamNext ==
    \/ \E url \in StreamUrls, lang \in StreamLangs : Invoke(url, lang)
    \/ FetchFails
    \/ \E status \in HttpErrors, errText \in ErrTexts : FetchNotOk(status, errText)
    \/ ErrTextFails
    \/ FetchNoBody
    \/ FetchOk
    \/ ReadChunk
    \/ ReadDone
    \/ ReadFails

----------------------------------------------------------------------------
(* analyzeUrl and analyzeUrlSync *)

POLL_INTERVAL == 2000
MAX_ATTEMPTS == 60

ApiError(status, message) == [name |-> "ApiError", status |-> status, message |-> message]
\* What a rejected fetch or a rejected response.json() throws.
OtherError(name) == [name |-> name, status |-> 0, message |-> name]
NoErr == [name |-> "none", status |-> 0, message |-> ""]

StartFailedMsg == "Failed to start analysis"
BackgroundFailedMsg == "Analysis failed during background processing"
TimeoutMsg == "Analysis timed out (background task took too long)"
UnknownErrorMsg == "Unknown error"
\* `HTTP ${response.status}`
HttpMsg(status) == IF status = 500 THEN "HTTP 500" ELSE "HTTP 503"

ApiUrls == {"https://a.example"}
Competitors == {Undefined, "", "https://c.example"}
TaskIds == {"t1"}
Details == {Undefined, "detail"}
Results == {"r1", "r2"}

NoResp == [status |-> 0, ok |-> FALSE, parses |-> FALSE, body |-> Undefined,
           detail |-> Undefined]

\* Responses to a POST: the HTTP status, whether response.json() parses the
\* body, the parsed body of an OK response (a task id for the start call,
\* a result for the legacy call), the detail field of an error body.
OkResponses(bodies) ==
    {[status |-> 200, ok |-> TRUE, parses |-> TRUE, body |-> b, detail |-> Undefined]
        : b \in bodies}
    \cup {[status |-> 200, ok |-> TRUE, parses |-> FALSE, body |-> Undefined,
           detail |-> Undefined]}
ErrorResponses(statuses) ==
    {[status |-> st, ok |-> FALSE, parses |-> TRUE, body |-> Undefined, detail |-> d]
        : st \in statuses, d \in Details}
    \cup {[status |-> st, ok |-> FALSE, parses |-> FALSE, body |-> Undefined,
           detail |-> Undefined] : st \in statuses}

StartResponses == OkResponses(TaskIds) \cup ErrorResponses({404, 500, 503})
LegacyResponses == OkResponses(Results) \cup ErrorResponses({500, 503})

NoTask == [status |-> Undefined, result |-> Undefined, error |-> Undefined]

\* Responses to the status GET: not OK, OK with a body that does not
\* parse, or OK with a task.
TaskBodies ==
    {[status |-> st, result |-> Undefined, error |-> Undefined] : st \in {"pending", "running"}}
    \cup {[status |-> "completed", result |-> r, error |-> Undefined]
             : r \in Results \cup {Undefined, Null}}
    \cup {[status |-> "failed", result |-> Undefined, error |-> e]
             : e \in {Undefined, "", "crawl failed"}}
StatusResponses ==
    {[ok |-> FALSE, parses |-> FALSE, task |-> NoTask]}
    \cup {[ok |-> TRUE, parses |-> FALSE, task |-> NoTask]}
    \cup {[ok |-> TRUE, parses |-> TRUE, task |-> t] : t \in TaskBodies}

\* The kind of a status response, for the history.
Kind(resp) ==
    IF ~resp.ok THEN "nonok"
    ELSE IF ~resp.parses THEN "badjson"
    ELSE IF resp.task.status = "completed"
         THEN IF Truthy(resp.task.result) THEN "completed" ELSE "completed-noresult"
    ELSE resp.task.status

PollInit ==
    /\ apc = "idle"
    /\ request = [url |-> Undefined, lang |-> Undefined, competitor_url |-> Undefined]
    /\ startResp = NoResp
    /\ taskId = Undefined
    /\ i = 0
    /\ task = NoTask
    /\ posts = 0
    /\ gets = 0
    /\ waits = 0
    /\ legacyPosts = 0
    /\ legacyBody = Undefined
    /\ legacyResp = NoResp
    /\ seen = {}
    /\ lastKind = "none"
    /\ transport = "none"
    /\ delay = 0
    /\ aret = Undefined
    /\ aerr = NoErr

\* analyzeUrl(url, lang, competitorUrl) up to the start POST.
\* competitor_url is spread into the request only when it is truthy.
Call(url, lang, competitorUrl) ==
    /\ apc = "idle"
    /\ request' = [url |-> url, lang |-> lang,
                   competitor_url |-> IF Truthy(competitorUrl) THEN competitorUrl
                                      ELSE Undefined]
    /\ posts' = posts + 1
    /\ apc' = "start"
    /\ UNCHANGED <<startResp, taskId, i, task, gets, waits, delay, legacyPosts, legacyBody,
                   legacyResp, seen, lastKind, transport, aret, aerr>>
    /\ UNCHANGED <<streamVars, pageVars, healthVars, keyVars>>

apiThrow(e) ==
    /\ apc' = "rejected"
    /\ aerr' = e
    /\ UNCHANGED aret

apiReturn(v) ==
    /\ apc' = "resolved"
    /\ aret' = v
    /\ UNCHANGED aerr

\* loopTest whose timer is set without the interval (setTimeout(resolve)).
loopTestNoDelay(k) ==
    /\ i' = k
    /\ IF k < MAX_ATTEMPTS
       THEN /\ waits' = waits + 1
            /\ delay' = 0
            /\ apc' = "wait"
            /\ UNCHANGED <<aret, aerr>>
       ELSE /\ apiThrow(ApiError(408, TimeoutMsg))
            /\ UNCHANGED <<waits, delay>>

\* loopTest without the cap on the attempts.
loopTestUnbounded(k) ==
    /\ i' = k
    /\ waits' = waits + 1
    /\ delay' = POLL_INTERVAL
    /\ apc' = "wait"
    /\ UNCHANGED <<aret, aerr>>

\* loopTest that admits one attempt too many.
loopTestOffByOne(k) ==
    /\ i' = k
    /\ IF k <= MAX_ATTEMPTS
       THEN /\ waits' = waits + 1
            /\ delay' = POLL_INTERVAL
            /\ apc' = "wait"
            /\ UNCHANGED <<aret, aerr>>
       ELSE /\ apiThrow(ApiError(408, TimeoutMsg))
            /\ UNCHANGED <<waits, delay>>

\* The head of the for loop with loop variable k: either the body starts
\* with the POLL_INTERVAL wait, or the loop is left and line 71 throws.
loopTest(k) ==
    /\ i' = k
    /\ IF k < MAX_ATTEMPTS
       THEN /\ waits' = waits + 1
            /\ delay' = POLL_INTERVAL
            /\ apc' = "wait"
            /\ UNCHANGED <<aret, aerr>>
       ELSE /\ apiThrow(ApiError(408, TimeoutMsg))
            /\ UNCHANGED <<waits, delay>>

\* analyzeUrlSync that posts the url and lang only.
analyzeUrlSyncBare(req) ==
    /\ legacyPosts' = legacyPosts + 1
    /\ legacyBody' = [req EXCEPT !.competitor_url = Undefined]
    /\ apc' = "legacy"

\* analyzeUrlSync(request) up to its POST to /api/analyze (api.ts:77-82).
analyzeUrlSync(req) ==
    /\ legacyPosts' = legacyPosts + 1
    /\ legacyBody' = req
    /\ apc' = "legacy"

\* startErrorDetail that ignores the body of the response.
startErrorDetailFixed(resp) == StartFailedMsg

\* error.detail of line 44-45: the detail of the parsed body, or of the
\* substitute object when response.json() rejects.
startErrorDetail(resp) == IF resp.parses THEN resp.detail ELSE StartFailedMsg

\* The start POST is answered (api.ts:39-51).
StartResponse(resp) ==
    /\ apc = "start"
    /\ startResp' = resp
    /\ IF ~resp.ok
       THEN IF resp.status = 404
            THEN /\ analyzeUrlSync(request)
                 /\ UNCHANGED <<taskId, i, waits, delay, aret, aerr>>
            ELSE /\ apiThrow(ApiError(resp.status, startErrorDetail(resp)))
                 /\ UNCHANGED <<taskId, i, waits, delay, legacyPosts, legacyBody>>
       ELSE IF ~resp.parses
            THEN /\ apiThrow(OtherError("SyntaxError"))
                 /\ UNCHANGED <<taskId, i, waits, delay, legacyPosts, legacyBody>>
            ELSE /\ taskId' = resp.body
                 /\ loopTest(0)
                 /\ UNCHANGED <<legacyPosts, legacyBody>>
    /\ UNCHANGED <<request, task, posts, gets, legacyResp, seen, lastKind, transport>>
    /\ UNCHANGED <<streamVars, pageVars, healthVars, keyVars>>

\* The start POST rejects.
StartFails ==
    /\ apc = "start"
    /\ transport' = "start"
    /\ apiThrow(OtherError("TypeError"))
    /\ UNCHANGED <<request, startResp, taskId, i, task, posts, gets, waits, delay, legacyPosts,
                   legacyBody, legacyResp, seen, lastKind>>
    /\ UNCHANGED <<streamVars, pageVars, healthVars, keyVars>>

\* The POLL_INTERVAL timer fires: the status GET is issued.
TimerFires ==
    /\ apc = "wait"
    /\ gets' = gets + 1
    /\ apc' = "get"
    /\ UNCHANGED <<request, startResp, taskId, i, task, posts, waits, delay, legacyPosts,
                   legacyBody, legacyResp, seen, lastKind, transport, aret, aerr>>
    /\ UNCHANGED <<streamVars, pageVars, healthVars, keyVars>>

\* isCompleted that does not look at the result.
isCompletedAnyResult(t) == t.status = "completed"

\* isCompleted that compares with a misspelt status.
isCompletedTypo(t) == t.status = "complete" /\ Truthy(t.result)

\* task.status === "completed" && task.result (api.ts:60)
isCompleted(t) == t.status = "completed" /\ Truthy(t.result)

\* failureMessage that ignores the error of the task.
failureMessageFixed(t) == BackgroundFailedMsg

\* task.error || "Analysis failed during background processing" (api.ts:65)
failureMessage(t) == OrElse(t.error, BackgroundFailedMsg)

\* notOk that gives up on the first response that is not OK.
notOkThrows ==
    /\ apiThrow(ApiError(503, "HTTP 503"))
    /\ UNCHANGED <<i, waits, delay, task>>

\* if (!taskResponse.ok) continue (api.ts:56)
notOk == loopTest(i + 1) /\ UNCHANGED task

\* The status GET is answered (api.ts:56-69).
StatusResponse(resp) ==
    /\ apc = "get"
    /\ seen' = seen \cup {Kind(resp)}
    /\ lastKind' = Kind(resp)
    /\ IF ~resp.ok
       THEN notOk
       ELSE IF ~resp.parses
            THEN apiThrow(OtherError("SyntaxError")) /\ UNCHANGED <<task, i, waits, delay>>
       ELSE /\ task' = resp.task
            /\ IF isCompleted(resp.task)
               THEN apiReturn(resp.task.result) /\ UNCHANGED <<i, waits, delay>>
               ELSE IF resp.task.status = "failed"
                    THEN /\ apiThrow(ApiError(500, failureMessage(resp.task)))
                         /\ UNCHANGED <<i, waits, delay>>
                    ELSE loopTest(i + 1)
    /\ UNCHANGED <<request, startResp, taskId, posts, gets, legacyPosts, legacyBody,
                   legacyResp, transport>>
    /\ UNCHANGED <<streamVars, pageVars, healthVars, keyVars>>

\* StatusFails that takes the rejected GET for a response that is not OK.
StatusFailsRetries ==
    /\ apc = "get"
    /\ seen' = seen \cup {"network"}
    /\ lastKind' = "network"
    /\ transport' = "status"
    /\ notOk
    /\ UNCHANGED <<request, startResp, taskId, posts, gets, legacyPosts,
                   legacyBody, legacyResp>>
    /\ UNCHANGED <<streamVars, pageVars, healthVars, keyVars>>

\* The status GET rejects.
StatusFails ==
    /\ apc = "get"
    /\ seen' = seen \cup {"network"}
    /\ lastKind' = "network"
    /\ transport' = "status"
    /\ apiThrow(OtherError("TypeError"))
    /\ UNCHANGED <<request, startResp, taskId, i, task, posts, gets, waits, delay, legacyPosts,
                   legacyBody, legacyResp>>
    /\ UNCHANGED <<streamVars, pageVars, healthVars, keyVars>>

\* The legacy POST is answered (api.ts:84-89).
LegacyResponse(resp) ==
    /\ apc = "legacy"
    /\ legacyResp' = resp
    /\ IF ~resp.ok
       THEN apiThrow(ApiError(resp.status,
                              OrElse(IF resp.parses THEN resp.detail ELSE UnknownErrorMsg,
                                     HttpMsg(resp.status))))
       ELSE IF ~resp.parses
            THEN apiThrow(OtherError("SyntaxError"))
            ELSE apiReturn(resp.body)
    /\ UNCHANGED <<request, startResp, taskId, i, task, posts, gets, waits, delay, legacyPosts,
                   legacyBody, seen, lastKind, transport>>
    /\ UNCHANGED <<streamVars, pageVars, healthVars, keyVars>>

\* The legacy POST rejects.
LegacyFails ==
    /\ apc = "legacy"
    /\ transport' = "legacy"
    /\ apiThrow(OtherError("TypeError"))
    /\ UNCHANGED <<request, startResp, taskId, i, task, posts, gets, waits, delay, legacyPosts,
                   legacyBody, legacyResp, seen, lastKind>>
    /\ UNCHANGED <<streamVars, pageVars, healthVars, keyVars>>

PollNext ==
    \/ \E url \in ApiUrls, lang \in Langs, c \in Competitors : Call(url, lang, c)
    \/ \E resp \in StartResponses : StartResponse(resp)
    \/ StartFails
    \/ TimerFires
    \/ \E resp \in StatusResponses : StatusResponse(resp)
    \/ StatusFails
    \/ \E resp \in LegacyResponses : LegacyResponse(resp)
    \/ LegacyFails

----------------------------------------------------------------------------
(* healthCheck (lib/api.ts) *)

\* The statuses GET /api/health is answered with; response.ok is true for
\* the statuses 200 to 299.
HealthStatuses == {200, 204, 500, 503}
ok(status) == status \in 200..299

HealthInit ==
    /\ health = "idle"
    /\ healthResp = [kind |-> "none", status |-> 0]
    /\ healthRet = Undefined

\* healthCheck() up to `await fetch(...)`.
HealthCall ==
    /\ health = "idle"
    /\ health' = "fetching"
    /\ UNCHANGED <<healthResp, healthRet>>
    /\ UNCHANGED <<streamVars, pollVars, pageVars, keyVars>>

\* The response arrives: `return response.ok`.
healthResponse(status) ==
    /\ health = "fetching"
    /\ healthResp' = [kind |-> "response", status |-> status]
    /\ health' = "resolved"
    /\ healthRet' = ok(status)
    /\ UNCHANGED <<streamVars, pollVars, pageVars, keyVars>>

HealthResponse == \E status \in HealthStatuses : healthResponse(status)

\* HealthFails without the catch block.
HealthFailsUncaught ==
    /\ health = "fetching"
    /\ healthResp' = [kind |-> "failed", status |-> 0]
    /\ health' = "rejected"
    /\ UNCHANGED healthRet
    /\ UNCHANGED <<streamVars, pollVars, pageVars, keyVars>>

\* fetch rejects: `catch { return false }`.
HealthFails ==
    /\ health = "fetching"
    /\ healthResp' = [kind |-> "failed", status |-> 0]
    /\ health' = "resolved"
    /\ healthRet' = FALSE
    /\ UNCHANGED <<streamVars, pollVars, pageVars, keyVars>>

HealthNext ==
    \/ HealthCall
    \/ HealthResponse
    \/ HealthFails

----------------------------------------------------------------------------
(* Home (app/page.tsx)                                                     *)
(*                                                                         *)
(* The setter calls that one handler makes before it returns or awaits    *)
(* are one step: React applies them together.  steps and isApiHealthy are  *)
(* display state that no handler reads and are left out.  The message of   *)
(* an error is the sequence of its parts, as in serr; <<>> stands for the  *)
(* null of the error slot.                                                 *)

NoMessage == <<>>
\* t.home.apiUnavailable
ApiUnavailable == <<"apiUnavailable">>

PageMaxLines == 2

\* The lines of the bodies the page is run with, a missing error message
\* among them.
ErrorNoMessage == <<"F">>
PageLines == {LogA, CompleteR, CompleteQ, ErrorE, ErrorNoMessage}
PageBodies ==
    LET scripts == UNION {[1..n -> PageLines] : n \in 0..PageMaxLines}
    IN  {joinLines(sc) : sc \in scripts}
CompetitorUrls == {Undefined, "c.example"}

PageInit ==
    /\ state = "idle"
    /\ results = Null
    /\ error = NoMessage
    /\ isAuthenticated = FALSE
    /\ hpc = "none"
    /\ authSeen = FALSE
    /\ data = Null
    /\ running = 0
    /\ saved = 0
    /\ token = Null
    /\ saveRequests = 0

\* SearchBarShown for a search bar that stays on the page while loading.
SearchBarShownWhileLoading == state \in {"idle", "error", "loading"}

\* The search bar is rendered (page.tsx:181); it is given isLoading =
\* {false}, so its handleSubmit passes every non-empty url on.
SearchBarShown == state \in {"idle", "error"}

\* The dashboard is rendered in place of the landing page (page.tsx:116).
DashboardShown == state = "results" /\ Truthy(results)

\* handleSearch that hands the competitor url on to the request when one
\* is given.
handleSearchWithCompetitor(url, competitorUrl) ==
    /\ state' = "loading"
    /\ error' = NoMessage
    /\ running' = running + 1
    /\ IF running = 0
       THEN /\ logs' = <<>>
            /\ currentStep' = "init"
            /\ endpoint' = IF Truthy(competitorUrl)
                           THEN <<url, CHOOSE l \in StreamLangs : TRUE, competitorUrl>>
                           ELSE <<url, CHOOSE l \in StreamLangs : TRUE>>
            /\ fetches' = 1
            /\ response' = "none"
            /\ readError' = FALSE
            /\ spc' = "fetching"
            /\ freshLocals
            /\ hpc' = "awaiting"
            /\ authSeen' = isAuthenticated
            /\ saved' = 0
            /\ saveRequests' = 0
            /\ data' = Null
       ELSE UNCHANGED <<streamVars, hpc, authSeen, saved, saveRequests, data>>
    /\ UNCHANGED <<results, isAuthenticated, token>>
    /\ UNCHANGED <<pollVars, healthVars, keyVars>>

\* handleSearch(url, competitorUrl) up to `await analyzeUrlStream(url,
\* language)` (page.tsx:68-75).  competitorUrl is not used.  A run that
\* starts while another one is under way is counted; its own call of
\* analyzeUrlStream is not followed further.
handleSearch(url, competitorUrl) ==
    /\ state' = "loading"
    /\ error' = NoMessage
    /\ running' = running + 1
    /\ IF running = 0
       THEN /\ analyzeUrlStream(url, CHOOSE l \in StreamLangs : TRUE)
            /\ hpc' = "awaiting"
            /\ authSeen' = isAuthenticated
            /\ saved' = 0
            /\ saveRequests' = 0
            /\ data' = Null
       ELSE UNCHANGED <<streamVars, hpc, authSeen, saved, saveRequests, data>>
    /\ UNCHANGED <<results, isAuthenticated, token>>
    /\ UNCHANGED <<pollVars, healthVars, keyVars>>

\* The form of the search bar is submitted (search-bar.tsx:49-54).
Submit ==
    /\ SearchBarShown
    /\ running < 2
    /\ \E url \in StreamUrls, c \in CompetitorUrls : handleSearch(url, c)

\* handleRescan (page.tsx:109-113), from the dashboard.  The url of the
\* results is the url that was analysed.
Rescan ==
    /\ DashboardShown
    /\ running < 2
    /\ Truthy(results)
    /\ handleSearch(endpoint[1], Undefined)

\* handleBack (page.tsx:102-107), from the dashboard.
Back ==
    /\ DashboardShown
    /\ state' = "idle"
    /\ results' = Null
    /\ error' = NoMessage
    /\ UNCHANGED <<isAuthenticated, hpc, authSeen, data, running, saved, token, saveRequests>>
    /\ UNCHANGED <<streamVars, pollVars, healthVars, keyVars>>

\* The user signs in or out (useAuth).
AuthChange ==
    /\ isAuthenticated' = ~isAuthenticated
    /\ UNCHANGED <<state, results, error, hpc, authSeen, data, running, saved, token,
                   saveRequests>>
    /\ UNCHANGED <<streamVars, pollVars, healthVars, keyVars>>

\* The access token is stored or removed (by the sign-in and sign-out of
\* the AuthContext, or in another tab).
TokenChange ==
    /\ token' = IF token = Null THEN "tok" ELSE Null
    /\ UNCHANGED <<state, results, error, isAuthenticated, hpc, authSeen, data, running,
                   saved, saveRequests>>
    /\ UNCHANGED <<streamVars, pollVars, healthVars, keyVars>>

\* mutationFn(scanData) of useSaveScan up to its POST (useScan.ts:36-55):
\* without a token it returns before any request.  What follows the
\* response changes no state of the page.
mutationFn(scanData) ==
    saveRequests' = IF ~Truthy(token) THEN saveRequests ELSE saveRequests + 1

\* Resolved that saves whether the user is signed in or not.
ResolvedAlwaysSaves ==
    /\ hpc = "awaiting" /\ spc = "resolved"
    /\ data' = sret
    /\ saved' = saved + 1 /\ mutationFn(sret)
    /\ hpc' = "delay"
    /\ UNCHANGED <<state, results, error, isAuthenticated, authSeen, running, token>>
    /\ UNCHANGED <<streamVars, pollVars, healthVars, keyVars>>

\* analyzeUrlStream resolved: the try block up to the 500 ms timer
\* (page.tsx:75-85).  isAuthenticated is the value the running handler
\* closed over; mutateSaveScan(data) runs the mutationFn.
Resolved ==
    /\ hpc = "awaiting" /\ spc = "resolved"
    /\ data' = sret
    /\ IF authSeen
       THEN saved' = saved + 1 /\ mutationFn(sret)
       ELSE UNCHANGED <<saved, saveRequests>>
    /\ hpc' = "delay"
    /\ UNCHANGED <<state, results, error, isAuthenticated, authSeen, running, token>>
    /\ UNCHANGED <<streamVars, pollVars, healthVars, keyVars>>

\* The 500 ms timer fires (page.tsx:87-88).
DelayFires ==
    /\ hpc = "delay"
    /\ results' = data
    /\ state' = "results"
    /\ hpc' = "none"
    /\ running' = running - 1
    /\ UNCHANGED <<error, isAuthenticated, authSeen, data, saved, token, saveRequests>>
    /\ UNCHANGED <<streamVars, pollVars, healthVars, keyVars>>

\* catchMessage that passes the message on as it is.
catchMessageRaw(err) == err

\* What the catch block hands to setError (page.tsx:94-98).  The error is
\* never an ApiError here; an empty message gives way to the fixed text.
catchMessage(err) == IF err = <<"">> THEN ApiUnavailable ELSE err

\* analyzeUrlStream rejected: the catch block (page.tsx:89-99).
Catch ==
    /\ hpc = "awaiting" /\ spc = "rejected"
    /\ error' = catchMessage(serr)
    /\ state' = "error"
    /\ hpc' = "none"
    /\ running' = running - 1
    /\ UNCHANGED <<results, isAuthenticated, authSeen, data, saved, token, saveRequests>>
    /\ UNCHANGED <<streamVars, pollVars, healthVars, keyVars>>

PageFetchOk == fetchOk(PageBodies)

PageNext ==
    \/ Submit
    \/ Rescan
    \/ Back
    \/ AuthChange
    \/ TokenChange
    \/ Resolved
    \/ DelayFires
    \/ Catch
    \/ FetchFails
    \/ \E status \in HttpErrors, errText \in ErrTexts : FetchNotOk(status, errText)
    \/ ErrTextFails
    \/ FetchNoBody
    \/ PageFetchOk
    \/ ReadChunk
    \/ ReadDone
    \/ ReadFails

----------------------------------------------------------------------------
(* ApiKeysManager (components/settings/api-keys-manager.tsx)               *)
(*                                                                         *)
(* A key is its id; the list displayed is the sequence of the ids in keys. *)
(* The server is not part of the program: every response is one it can     *)
(* give.  A handler is created anew by every render and works on the keys  *)
(* of that render, before and after its await.  The name typed into the    *)
(* dialog and the dialog's being open are the user's and are not followed. *)

MaxKeys == 2
MaxKeyFetches == 2
MaxDeletes == 2

KeyIds == 1..MaxKeys
Users == {Null, "free", "agency"}

\* The lists a GET /api/api-keys/ may return: any keys, in the order of
\* their ids.
RECURSIVE listOf(_)
listOf(ids) ==
    IF ids = {} THEN <<>>
    ELSE LET m == CHOOSE x \in ids : \A y \in ids : x <= y
         IN  <<m>> \o listOf(ids \ {m})
KeyLists == {listOf(ids) : ids \in SUBSET KeyIds}

KeyInit ==
    /\ user = Null
    /\ keys = <<>>
    /\ loading = TRUE
    /\ createdKey = <<>>
    /\ keyFetches = 0
    /\ creates = 0
    /\ deletes = {}
    /\ lastDelete = "none"

\* fetchKeys() up to `await fetch(...)` (lines 46-51).
fetchKeys == keyFetches' = keyFetches + 1

\* useEffect(() => { if (user) fetchKeys() }, [user]) on a change of user.
UserChanges ==
    /\ \E u \in Users \ {user} :
          /\ user' = u
          /\ IF Truthy(u)
             THEN keyFetches < MaxKeyFetches /\ fetchKeys
             ELSE UNCHANGED keyFetches
    /\ UNCHANGED <<keys, loading, createdKey, creates, deletes, lastDelete>>
    /\ UNCHANGED <<streamVars, pollVars, pageVars, healthVars>>

\* The GET of fetchKeys is answered OK: setKeys(data), setLoading(false).
FetchKeysOk ==
    /\ keyFetches > 0
    /\ \E list \in KeyLists : keys' = list
    /\ loading' = FALSE
    /\ keyFetches' = keyFetches - 1
    /\ UNCHANGED <<user, createdKey, creates, deletes, lastDelete>>
    /\ UNCHANGED <<streamVars, pollVars, pageVars, healthVars>>

\* The GET is answered with a response that is not OK: only the finally
\* block acts.
FetchKeysNotOk ==
    /\ keyFetches > 0
    /\ loading' = FALSE
    /\ keyFetches' = keyFetches - 1
    /\ UNCHANGED <<user, keys, createdKey, creates, deletes, lastDelete>>
    /\ UNCHANGED <<streamVars, pollVars, pageVars, healthVars>>

\* The GET (or response.json()) rejects: catch, then finally.
FetchKeysFails ==
    /\ keyFetches > 0
    /\ loading' = FALSE
    /\ keyFetches' = keyFetches - 1
    /\ UNCHANGED <<user, keys, createdKey, creates, deletes, lastDelete>>
    /\ UNCHANGED <<streamVars, pollVars, pageVars, healthVars>>

\* handleCreateKey up to its POST (lines 67-79), from the dialog of an
\* agency user that shows the name field.
CreateKey ==
    /\ user = "agency" /\ createdKey = <<>>
    /\ creates = 0
    /\ creates' = creates + 1
    /\ UNCHANGED <<user, keys, loading, createdKey, keyFetches, deletes, lastDelete>>
    /\ UNCHANGED <<streamVars, pollVars, pageVars, healthVars>>

\* The POST is answered OK: setCreatedKey(data), fetchKeys() (lines 83-87).
CreateOk ==
    /\ creates > 0 /\ keyFetches < MaxKeyFetches
    /\ creates' = creates - 1
    /\ \E id \in KeyIds : createdKey' = <<id>>
    /\ fetchKeys
    /\ UNCHANGED <<user, keys, loading, deletes, lastDelete>>
    /\ UNCHANGED <<streamVars, pollVars, pageVars, healthVars>>

\* The POST is answered not OK, or rejects: the catch block shows a toast.
CreateFails ==
    /\ creates > 0
    /\ creates' = creates - 1
    /\ UNCHANGED <<user, keys, loading, createdKey, keyFetches, deletes, lastDelete>>
    /\ UNCHANGED <<streamVars, pollVars, pageVars, healthVars>>

\* The button under the created key: setCreatedKey(null) (line 179).
DismissCreated ==
    /\ createdKey # <<>>
    /\ createdKey' = <<>>
    /\ UNCHANGED <<user, keys, loading, keyFetches, creates, deletes, lastDelete>>
    /\ UNCHANGED <<streamVars, pollVars, pageVars, healthVars>>

\* keys.filter(k => k.id !== id)
without(ks, id) == SelectSeq(ks, LAMBDA k : k # id)

\* handleDeleteKey(id) up to its DELETE (lines 93-101), from the button of
\* a key displayed; confirm() may be answered either way.
ClickDelete ==
    /\ ~loading
    /\ \E n \in 1..Len(keys), confirmed \in BOOLEAN :
          IF confirmed
          THEN /\ Cardinality(deletes) < MaxDeletes
               /\ deletes' = deletes \cup {[id |-> keys[n], keys |-> keys]}
          ELSE UNCHANGED deletes
    /\ UNCHANGED <<user, keys, loading, createdKey, keyFetches, creates, lastDelete>>
    /\ UNCHANGED <<streamVars, pollVars, pageVars, healthVars>>

\* The DELETE is answered OK: setKeys(keys.filter(...)) on the keys of the
\* handler's render (line 104).
DeleteOk ==
    /\ \E d \in deletes :
          /\ keys' = without(d.keys, d.id)
          /\ deletes' = deletes \ {d}
    /\ lastDelete' = "ok"
    /\ UNCHANGED <<user, loading, createdKey, keyFetches, creates>>
    /\ UNCHANGED <<streamVars, pollVars, pageVars, healthVars>>

\* The DELETE is answered with a response that is not OK: nothing is done.
DeleteNotOk ==
    /\ \E d \in deletes : deletes' = deletes \ {d}
    /\ lastDelete' = "notok"
    /\ UNCHANGED <<user, keys, loading, createdKey, keyFetches, creates>>
    /\ UNCHANGED <<streamVars, pollVars, pageVars, healthVars>>

\* The DELETE rejects: the catch block shows a toast.
DeleteFails ==
    /\ \E d \in deletes : deletes' = deletes \ {d}
    /\ lastDelete' = "failed"
    /\ UNCHANGED <<user, keys, loading, createdKey, keyFetches, creates>>
    /\ UNCHANGED <<streamVars, pollVars, pageVars, healthVars>>

KeyNext ==
    \/ UserChanges
    \/ FetchKeysOk
    \/ FetchKeysNotOk
    \/ FetchKeysFails
    \/ CreateKey
    \/ CreateOk
    \/ CreateFails
    \/ DismissCreated
    \/ ClickDelete
    \/ DeleteOk
    \/ DeleteNotOk
    \/ DeleteFails

----------------------------------------------------------------------------

Init == StreamInit /\ PollInit /\ PageInit /\ HealthInit /\ KeyInit

StreamSpec == Init /\ [][StreamNext]_vars
PollSpec == Init /\ [][PollNext]_vars

\* The functions of lib/api.ts, callable side by side.
ApiSpec == Init /\ [][PollNext \/ HealthNext]_vars

\* One of the two mechanisms at work.  They are two functions without any
\* common state, so a run of one is not affected by the other.
EitherNext ==
    \/ apc = "idle" /\ StreamNext
    \/ spc = "idle" /\ PollNext

EitherSpec == Init /\ [][EitherNext]_vars

\* The steps of a call under way: a request or a read completes, the
\* timer fires.  The start of a call is the caller's choice and is not
\* among them.
FetchCompletes ==
    \/ FetchFails
    \/ \E status \in HttpErrors, errText \in ErrTexts : FetchNotOk(status, errText)
    \/ ErrTextFails
    \/ FetchNoBody
    \/ FetchOk
PollProgress ==
    \/ \E resp \in StartResponses : StartResponse(resp)
    \/ StartFails
    \/ TimerFires
    \/ \E resp \in StatusResponses : StatusResponse(resp)
    \/ StatusFails
    \/ \E resp \in LegacyResponses : LegacyResponse(resp)
    \/ LegacyFails

\* The API key settings.
KeySpec == Init /\ [][KeyNext]_vars

\* The home page with the call of analyzeUrlStream it makes.
PageSpec == Init /\ [][PageNext]_vars

\* Every outstanding read completes in the end: with a chunk, with the
\* end of the stream once the body is exhausted, or with a failure.  This
\* is weak fairness of ReadChunk \/ ReadDone \/ ReadFails written out: a
\* read is outstanding, and one of the three enabled, exactly when
\* spc = "reading", and the steps taken in such a state are theirs, no
\* other action being enabled in it.
ReadFair == []<>(spc # "reading") \/ []<><<spc = "reading">>_vars

\* EitherSpec where every request, every read and every timer of a call
\* under way completes in the end.
FairSpec ==
    /\ EitherSpec
    /\ WF_vars(FetchCompletes)
    /\ ReadFair
    /\ WF_vars(PollProgress)

----------------------------------------------------------------------------
(* Properties of analyzeUrlStream, checked under StreamSpec *)

\* The text of a whole body and its newline-terminated lines.
WholeText(b) == Utf8Decode(b).text
TerminatedLines(text) == LET segs == split(text) IN SubSeq(segs, 1, Len(segs) - 1)
EndsWithNewline(text) == split(text)[Len(split(text))] = <<>>
TypeOf(line) == IF trim(line) = <<>> THEN "blank" ELSE JSONparse(line).type

\* The body is n >= 0 log lines, then one complete line with a result
\* payload, all newline-terminated, and nothing else.
LogsThenComplete(b) ==
    LET ls == TerminatedLines(WholeText(b))
    IN  /\ Len(ls) >= 1
        /\ Utf8Decode(b).held = <<>> /\ EndsWithNewline(WholeText(b))
        /\ \A k \in 1..(Len(ls) - 1) : TypeOf(ls[k]) = "log"
        /\ TypeOf(ls[Len(ls)]) = "complete"
        /\ Truthy(JSONparse(ls[Len(ls)]).data)

\* C1: for a stream of n >= 0 newline-terminated log lines followed by one
\* newline-terminated complete line with a result payload and then the end
\* of the stream, analyzeUrlStream resolves with that line's data, and logs
\* is the n log messages in arrival order.
C1_LogsThenComplete ==
    (LogsThenComplete(body) /\ spc \in {"resolved", "rejected"}
        /\ serr # <<NetworkError>>)
    => LET ls == TerminatedLines(WholeText(body))
       IN  /\ spc = "resolved"
           /\ done
           /\ sret = JSONparse(ls[Len(ls)]).data
           /\ logs = [k \in 1..(Len(ls) - 1) |-> JSONparse(ls[k]).message]

C1_Witness ==
    /\ spc = "resolved" /\ LogsThenComplete(body)
    /\ Len(logs) = 2 /\ logs[1] # logs[2]

\* The lines handed to JSON.parse when ls are the lines iterated: the
\* non-blank ones, up to and including the first error message.
RECURSIVE Handed(_)
Handed(ls) ==
    IF ls = <<>> THEN <<>>
    ELSE IF TypeOf(Head(ls)) = "blank" THEN Handed(Tail(ls))
    ELSE IF TypeOf(Head(ls)) = "error" THEN <<Head(ls)>>
    ELSE <<Head(ls)>> \o Handed(Tail(ls))

\* What analyzeUrlStream leaves when the whole body b arrives in one chunk
\* and the stream then ends.
OneChunk(b) ==
    LET r == onChunk(b, <<>>, <<>>,
                     [logs |-> <<>>, step |-> "init", final |-> Null,
                      parsed |-> <<>>, thrown |-> NoError])
    IN  IF r.st.thrown # NoError
        THEN [logs |-> r.st.logs, step |-> r.st.step, pc |-> "rejected",
              ret |-> Undefined, err |-> <<r.st.thrown>>]
        ELSE IF ~Truthy(r.st.final)
        THEN [logs |-> r.st.logs, step |-> r.st.step, pc |-> "rejected",
              ret |-> Undefined, err |-> <<NoResult>>]
        ELSE [logs |-> r.st.logs, step |-> r.st.step, pc |-> "resolved",
              ret |-> r.st.final, err |-> <<>>]

\* The invocation got a body and ended by a message or by the end of the
\* stream (not by a failed request or read).
ReadOutcome ==
    \/ spc = "resolved"
    \/ spc = "rejected" /\ Len(serr) = 1 /\ serr[1] \notin {NetworkError, NoStream}

SameAsOneChunk ==
    ReadOutcome =>
        [logs |-> logs, step |-> currentStep, pc |-> spc, ret |-> sret, err |-> serr]
            = OneChunk(body)

\* The lines that have something to parse.
NonBlank(ls) == SelectSeq(ls, LAMBDA l : trim(l) # <<>>)

\* C2 as stated: whatever the text and its split into chunks, the lines
\* parsed are exactly the newline-terminated lines of the whole text (a
\* blank line, which has nothing to parse, apart), each once and in order,
\* none before its newline has arrived, and the final logs, currentStep
\* and outcome are those of the one-chunk delivery.
C2_AsStated ==
    /\ parsed = SubSeq(NonBlank(TerminatedLines(WholeText(body))), 1, Len(parsed))
    /\ Len(parsed) <= Len(NonBlank(TerminatedLines(WholeText(SubSeq(body, 1, pos)))))
    /\ ReadOutcome => parsed = NonBlank(TerminatedLines(WholeText(body)))
    /\ SameAsOneChunk

\* C2 (amended): whatever the text and its split into chunks, the lines
\* handed to JSON.parse are exactly the non-blank newline-terminated lines
\* of the text received so far, up to and including the first error
\* message, each once and in order, and the final logs, currentStep and
\* outcome are those of the one-chunk delivery.
C2_ChunkIndependent ==
    /\ parsed = Handed(TerminatedLines(WholeText(SubSeq(body, 1, pos))))
    /\ SameAsOneChunk

\* A chunk ended inside a message line and inside a two-byte character,
\* after an earlier line had been handled.
C2_Witness ==
    /\ spc = "reading" /\ buffer = <<"L", "t">> /\ decoder = <<LEAD>>
    /\ Len(parsed) >= 1 /\ pos < Len(body)

NoCompleteReceived ==
    \A k \in 1..Len(parsed) : JSONparse(parsed[k]).type # "complete"

\* C3: when the stream ends and no complete message was received, the call
\* rejects with "Stream ended without result." and resolves with nothing.
C3_NoResult ==
    (done /\ NoCompleteReceived)
    => spc = "rejected" /\ serr = <<NoResult>> /\ sret = Undefined

C3_Witness ==
    /\ done /\ NoCompleteReceived /\ Len(logs) >= 2 /\ spc = "rejected"

\* An error message has been handed to the loop.
ErrorProcessed == \E k \in 1..Len(parsed) : JSONparse(parsed[k]).type = "error"

RECURSIVE FirstError(_)
FirstError(ls) ==
    IF TypeOf(Head(ls)) = "error" THEN 1 ELSE 1 + FirstError(Tail(ls))

\* The effect of the lines ls on logs, currentStep and finalResult.
RECURSIVE LogsOf(_)
LogsOf(ls) ==
    IF ls = <<>> THEN <<>>
    ELSE (IF TypeOf(Head(ls)) = "log" THEN <<JSONparse(Head(ls)).message>> ELSE <<>>)
         \o LogsOf(Tail(ls))
RECURSIVE StepOf(_)
StepOf(ls) ==
    IF ls = <<>> THEN "init"
    ELSE IF TypeOf(ls[Len(ls)]) = "log" THEN JSONparse(ls[Len(ls)]).step
    ELSE StepOf(SubSeq(ls, 1, Len(ls) - 1))
RECURSIVE FinalOf(_)
FinalOf(ls) ==
    IF ls = <<>> THEN Null
    ELSE IF TypeOf(ls[Len(ls)]) = "complete" THEN JSONparse(ls[Len(ls)]).data
    ELSE FinalOf(SubSeq(ls, 1, Len(ls) - 1))

\* In the state that follows an error message: the call has rejected with
\* the message, and logs, currentStep and the captured result are what the
\* lines before the error line made them.
ErrorAborted ==
    ErrorProcessed =>
        LET ls == TerminatedLines(WholeText(body))
            e == FirstError(ls)
            before == SubSeq(ls, 1, e - 1)
        IN  /\ spc = "rejected"
            /\ serr = <<JSONparse(ls[e]).message>>
            /\ ~done
            /\ logs = LogsOf(before)
            /\ currentStep = StepOf(before)
            /\ finalResult = FinalOf(before)

\* After an error message nothing is read and nothing changes, until the
\* next invocation starts.
ErrorFinal ==
    ErrorProcessed =>
        \/ UNCHANGED <<spc, serr, sret, logs, currentStep, finalResult, pos, done, parsed>>
        \/ spc' = "fetching"

\* C4: an error message makes analyzeUrlStream reject at once with that
\* message; no further read is performed and no line after the error line,
\* in the same chunk or a later one, changes logs, currentStep or the
\* captured result.
C4_ErrorAborts == []ErrorAborted /\ [][ErrorFinal]_vars

\* Rejected by an error message that was followed by a log line in the
\* chunk that carried it and by a part of the body that was never read.
C4_Witness ==
    /\ ErrorProcessed /\ spc = "rejected"
    /\ pos < Len(body)
    /\ LET ls == TerminatedLines(WholeText(SubSeq(body, 1, pos)))
       IN  Len(ls) = 2 /\ FirstError(ls) = 1 /\ TypeOf(ls[2]) = "log"

----------------------------------------------------------------------------
(* analyzeUrlStream: the complete message, the observable slots, bad lines *)

CompleteProcessed == \E k \in 1..Len(parsed) : JSONparse(parsed[k]).type = "complete"

\* C11: a complete message captures its data and does not end the call:
\* the captured result is the data of the last complete line handled, the
\* call stays in the read loop until a read reports the end of the stream
\* (or an error message or a failed read ends it), it resolves only with
\* the whole body read and the end reported, and the log lines handled
\* after a complete line are in logs and currentStep like any other.
C11_CompleteKeepsReading ==
    /\ finalResult = FinalOf(parsed)
    /\ (CompleteProcessed /\ ~ErrorProcessed /\ ~readError /\ ~done) => spc = "reading"
    /\ spc = "resolved" => done /\ pos = Len(body) /\ sret = finalResult
    /\ CompleteProcessed =>
           LET ls == Handed(TerminatedLines(WholeText(SubSeq(body, 1, pos))))
           IN  logs = LogsOf(ls) /\ currentStep = StepOf(ls)

\* Resolved after a complete line that was followed by a log line.
C11_Witness ==
    /\ spc = "resolved" /\ Len(parsed) = 2
    /\ TypeOf(parsed[1]) = "complete" /\ TypeOf(parsed[2]) = "log"
    /\ logs = <<JSONparse(parsed[2]).message>>
    /\ currentStep = JSONparse(parsed[2]).step
    /\ sret = JSONparse(parsed[1]).data

----------------------------------------------------------------------------
\* C12: from the start of an invocation on, logs is the messages of the
\* log lines handled so far, in the order they were handled, and
\* currentStep is the step of the last of them, "init" when there is none.
C12_LogsAndStep ==
    spc # "idle" => logs = LogsOf(parsed) /\ currentStep = StepOf(parsed)

\* In the middle of a body, after two different log lines in arrival
\* order, with a part of the next line in the buffer.
C12_Witness ==
    /\ spc = "reading" /\ pos < Len(body) /\ buffer # <<>>
    /\ parsed = <<WholeText(LogB), LogA>>
    /\ logs = <<EACUTE, "a">> /\ currentStep = "s"

----------------------------------------------------------------------------
\* The lines without those that are not valid JSON.
Valid(ls) == SelectSeq(ls, LAMBDA l : TypeOf(l) # "SyntaxError")

\* The loop state the lines ls produce from the start of an invocation.
Run(ls) ==
    forLines(ls, [logs |-> <<>>, step |-> "init", final |-> Null,
                  parsed |-> <<>>, thrown |-> NoError])

\* C13: a newline-terminated line that is not valid JSON never fails the
\* call and has no effect: whatever the chunks, logs, currentStep, the
\* captured result and the outcome are those that the lines received so
\* far produce once the invalid ones are taken out.
C13_BadLineSkipped ==
    response = "ok" =>
        LET r == Run(Valid(TerminatedLines(WholeText(SubSeq(body, 1, pos)))))
        IN  /\ logs = r.logs
            /\ currentStep = r.step
            /\ finalResult = r.final
            /\ IF r.thrown # NoError
               THEN spc = "rejected" /\ serr = <<r.thrown>>
               ELSE /\ spc = "rejected" => serr \in {<<NoResult>>, <<NetworkError>>}
                    /\ serr = <<NoResult>> => done /\ ~Truthy(r.final)
                    /\ done /\ Truthy(r.final) => spc = "resolved" /\ sret = r.final

\* Resolved although an invalid line came first, with a log line and the
\* complete line after it.
C13_Witness ==
    /\ spc = "resolved"
    /\ LET ls == TerminatedLines(WholeText(body))
       IN  /\ Len(ls) = 3 /\ TypeOf(ls[1]) = "SyntaxError"
           /\ TypeOf(ls[2]) = "log" /\ TypeOf(ls[3]) = "complete"
           /\ logs = <<JSONparse(ls[2]).message>>
           /\ sret = JSONparse(ls[3]).data

----------------------------------------------------------------------------
\* C14: when the OK response has no body, the call is rejected with
\* "ReadableStream not supported by browser." by the step that receives
\* the response: no read was made and none reported the end, no line was
\* handled, logs is empty and currentStep is "init".
C14_NoBody ==
    response = "nobody" =>
        /\ spc = "rejected" /\ serr = <<NoStream>> /\ sret = Undefined
        /\ pos = 0 /\ ~done /\ ~readError /\ parsed = <<>>
        /\ logs = <<>> /\ currentStep = "init"

\* The invocation got an OK response without body and is rejected.
C14_Witness ==
    response = "nobody" /\ spc = "rejected" /\ serr = <<NoStream>> /\ fetches = 1

----------------------------------------------------------------------------
\* A step from a failed call: either logs and currentStep stay, or the step
\* is a new invocation, which leaves logs empty and currentStep "init" in
\* the state where its request is outstanding.
AfterFailure ==
    spc = "rejected" =>
        IF spc' = "rejected"
        THEN UNCHANGED <<logs, currentStep, serr>>
        ELSE spc' = "fetching" /\ fetches' = 1 /\ logs' = <<>> /\ currentStep' = "init"

\* C17: after a failure logs and currentStep keep their values until a new
\* invocation, which resets them to the empty sequence and "init" before
\* its request is outstanding.
C17_KeptUntilReset ==
    /\ [](spc = "fetching" => logs = <<>> /\ currentStep = "init" /\ response = "none")
    /\ [][AfterFailure]_vars

\* Failed at the end of a stream that had delivered two log lines.
C17_Witness ==
    /\ spc = "rejected" /\ serr = <<NoResult>>
    /\ Len(logs) = 2 /\ currentStep \notin {"init", Null}

----------------------------------------------------------------------------
(* analyzeUrlStream: what it changes, and what the end of the stream drops *)

\* The step is the start of an invocation (lines 35-36).
Reset == spc # "fetching" /\ spc' = "fetching"

\* The lines that the step handed to JSON.parse.
NewlyParsed == SubSeq(parsed', Len(parsed) + 1, Len(parsed'))

\* A step of analyzeUrlStream leaves everything but its own state alone,
\* and it changes logs or currentStep only as the reset of a new invocation
\* or by log lines that it parsed, which it appends in order (a blank line
\* is never parsed).
OnlyResetAndLogs ==
    /\ UNCHANGED <<pollVars, pageVars, healthVars, keyVars>>
    /\ \/ UNCHANGED <<logs, currentStep>>
       \/ Reset /\ logs' = <<>> /\ currentStep' = "init"
       \/ /\ ~Reset
          /\ LET new == NewlyParsed
             IN  /\ \E k \in 1..Len(new) : TypeOf(new[k]) = "log"
                 /\ logs' = logs \o LogsOf(new)
                 /\ currentStep' = StepOf(new)

\* C21: analyzeUrlStream changes no observable state other than logs and
\* currentStep, and only the reset at the start of an invocation and log
\* messages change these two: a step that handles only blank lines,
\* unparsable lines, values of unknown or missing type and complete
\* messages leaves both as they were.
C21_OnlyResetAndLogs == [][OnlyResetAndLogs]_vars

\* Resolved with logs and currentStep still as the reset left them, after
\* a blank line, an unparsable line and a complete line.
C21_Witness ==
    /\ spc = "resolved" /\ logs = <<>> /\ currentStep = "init"
    /\ LET ls == TerminatedLines(WholeText(body))
       IN  /\ Len(ls) = 3 /\ TypeOf(ls[1]) = "blank"
           /\ TypeOf(ls[2]) = "SyntaxError" /\ TypeOf(ls[3]) = "complete"

----------------------------------------------------------------------------
\* The text after the last newline of the body.
Unterminated(b) == LET segs == split(WholeText(b)) IN segs[Len(segs)]

\* C23: the text left in the buffer when the stream ends is never parsed:
\* once the end has been reported, the lines handed to JSON.parse, logs,
\* currentStep, the captured result and the outcome are those of the
\* newline-terminated lines alone, so with no result among them the call
\* has failed with "Stream ended without result." whatever the text after
\* the last newline is.
C23_TailNeverParsed ==
    done =>
        LET ls == TerminatedLines(WholeText(body))
        IN  /\ parsed = NonBlank(ls)
            /\ logs = LogsOf(ls)
            /\ currentStep = StepOf(ls)
            /\ finalResult = FinalOf(ls)
            /\ IF Truthy(FinalOf(ls))
               THEN spc = "resolved" /\ sret = FinalOf(ls)
               ELSE spc = "rejected" /\ serr = <<NoResult>> /\ sret = Undefined

\* The stream ended after a log line and a complete line that has a result
\* and no newline after it: the line is in the buffer and the call failed.
C23_Witness ==
    /\ done /\ spc = "rejected" /\ serr = <<NoResult>>
    /\ buffer = Unterminated(body) /\ TypeOf(buffer) = "complete"
    /\ Truthy(JSONparse(buffer).data)
    /\ Len(logs) = 1 /\ ~CompleteProcessed

----------------------------------------------------------------------------
\* The complete lines among ls.
Completes(ls) == SelectSeq(ls, LAMBDA l : TypeOf(l) = "complete")

\* C24: a captured result is not final until the stream ends.  When an
\* error line is processed after a complete line the call is rejected with
\* the error's message and returns nothing; and a call that resolves
\* returns the data of the last complete line processed, whatever the
\* complete lines before it carried.
C24_LastCompleteUnlessError ==
    /\ (CompleteProcessed /\ ErrorProcessed) =>
           /\ spc = "rejected" /\ sret = Undefined
           /\ serr = <<JSONparse(parsed[Len(parsed)]).message>>
    /\ spc = "resolved" =>
           LET cs == Completes(parsed)
           IN  Len(cs) >= 1 /\ sret = JSONparse(cs[Len(cs)]).data

\* Rejected by an error line that came after two complete lines with
\* different data, the second of which was the captured result.
C24_Witness ==
    /\ spc = "rejected" /\ Len(parsed) = 3
    /\ TypeOf(parsed[1]) = "complete" /\ TypeOf(parsed[2]) = "complete"
    /\ TypeOf(parsed[3]) = "error"
    /\ JSONparse(parsed[1]).data # JSONparse(parsed[2]).data
    /\ Truthy(JSONparse(parsed[1]).data)
    /\ finalResult = JSONparse(parsed[2]).data /\ Truthy(finalResult)
    /\ serr = <<JSONparse(parsed[3]).message>>

----------------------------------------------------------------------------
\* The data of the last complete line handed to the loop.
Captured == LET cs == Completes(parsed) IN JSONparse(cs[Len(cs)]).data

\* C26: success is decided by the truthiness of the captured data.  When
\* the stream ends after a complete message and the data captured last is
\* null, the call is rejected with "Stream ended without result." and
\* returns nothing, as when no complete message arrived; it resolves only
\* with data that is truthy.
C26_FalsyDataIsNoResult ==
    /\ (done /\ CompleteProcessed) =>
           IF Truthy(Captured)
           THEN spc = "resolved" /\ sret = Captured
           ELSE spc = "rejected" /\ serr = <<NoResult>> /\ sret = Undefined
    /\ spc = "resolved" => Truthy(sret)

\* The stream ended after a complete line with a result and a later one
\* whose data is null: the call failed.
C26_Witness ==
    /\ done /\ spc = "rejected" /\ serr = <<NoResult>>
    /\ Len(Completes(parsed)) = 2
    /\ Truthy(JSONparse(Completes(parsed)[1]).data)
    /\ Captured = Null /\ finalResult = Null

----------------------------------------------------------------------------
\* `Analyze failed: ${response.status} - ${errText}` for one of the
\* responses that are not OK.
AnalyzeFailed(err) ==
    /\ Len(err) = 4
    /\ err[1] = "Analyze failed: " /\ err[2] \in HttpErrors
    /\ err[3] = " - " /\ err[4] \in ErrTexts

\* The body was not read as a line stream: no chunk was read and no end
\* reported, no line was parsed, logs is empty and currentStep is "init".
NothingStreamed ==
    /\ pos = 0 /\ ~done /\ body = <<>> /\ buffer = <<>>
    /\ parsed = <<>> /\ finalResult = Null
    /\ logs = <<>> /\ currentStep = "init"

\* C27 as stated: whenever the initial response is not OK the call is
\* rejected with "Analyze failed: <status> - <body text>" and nothing was
\* streamed.
C27_AsStated ==
    response = "notok" =>
        spc = "rejected" /\ AnalyzeFailed(serr) /\ NothingStreamed

\* C27 (amended): when the initial response is not OK the call is rejected
\* without reading the body as a line stream: with "Analyze failed:
\* <status> - <body text>" when the text of the body was read, and with
\* the failure of that read when it was not.
C27_NotOkRejects ==
    response = "notok" =>
        /\ spc = "rejected" /\ sret = Undefined
        /\ NothingStreamed
        /\ IF readError THEN serr = <<NetworkError>> ELSE AnalyzeFailed(serr)

\* Rejected on a 429 response with the body text "busy".
C27_Witness ==
    /\ response = "notok" /\ spc = "rejected"
    /\ serr = <<"Analyze failed: ", 429, " - ", "busy">>

----------------------------------------------------------------------------
(* Properties of analyzeUrl, checked under PollSpec *)

Ended == apc \in {"resolved", "rejected"}
\* The start POST was answered OK with a task id: the poll loop was entered.
Polling == startResp.ok /\ startResp.parses
Timeout == ApiError(408, TimeoutMsg)

\* C5: analyzeUrl never issues more than MAX_ATTEMPTS status GETs, and for
\* a task that every status response reports as pending or running it
\* issues exactly MAX_ATTEMPTS of them and then rejects with the timeout
\* error, an ApiError with status 408.
C5_AtMostMaxAttempts ==
    /\ gets <= MAX_ATTEMPTS
    /\ (Polling /\ Ended /\ seen \subseteq {"pending", "running"})
       => gets = MAX_ATTEMPTS /\ apc = "rejected" /\ aerr = Timeout

C5_Witness ==
    /\ Polling /\ apc = "rejected" /\ seen = {"running"}
    /\ gets = 60 /\ aerr.status = 408

\* C6: when the start POST answers 404, analyzeUrl issues exactly one POST
\* to the legacy endpoint with the same payload, no status GET and no wait,
\* and ends as the legacy call ends: resolved with the body of an OK
\* response, rejected with the status of a response that is not OK.
C6_LegacyFallback ==
    startResp.status = 404 =>
        /\ posts = 1 /\ legacyPosts = 1 /\ legacyBody = request
        /\ gets = 0 /\ waits = 0
        /\ (legacyResp.ok /\ legacyResp.parses)
           => apc = "resolved" /\ aret = legacyResp.body
        /\ apc = "resolved" => legacyResp.ok
        /\ (legacyResp.status # 0 /\ ~legacyResp.ok)
           => apc = "rejected" /\ aerr.name = "ApiError"
              /\ aerr.status = legacyResp.status

C6_Witness ==
    /\ startResp.status = 404 /\ apc = "resolved" /\ aret = "r2"
    /\ request.competitor_url # Undefined /\ legacyBody = request

\* C7: the first status response that is OK and reports completed with a
\* result payload ends the loop: analyzeUrl resolves with exactly that
\* result, and no wait or status GET follows it.
C7_CompletedResolves ==
    "completed" \in seen =>
        /\ apc = "resolved"
        /\ task.status = "completed" /\ Truthy(task.result)
        /\ aret = task.result
        /\ gets = i + 1 /\ waits = gets

C7_Witness ==
    /\ apc = "resolved" /\ aret = "r1" /\ gets = 4
    /\ {"nonok", "running", "completed-noresult"} \subseteq seen

\* C8: the first status response that is OK and reports failed ends the
\* loop: analyzeUrl rejects with an ApiError of status 500 whose message is
\* the error of the task or, when the task carries none (none or an empty
\* one), the default message, and no status GET follows it.
C8_FailedRejects ==
    "failed" \in seen =>
        /\ apc = "rejected"
        /\ task.status = "failed"
        /\ aerr = ApiError(500, IF task.error \in {Undefined, ""}
                                THEN BackgroundFailedMsg ELSE task.error)
        /\ gets = i + 1 /\ waits = gets

C8_Witness ==
    /\ apc = "rejected" /\ "failed" \in seen /\ gets = 3
    /\ aerr.message = "crawl failed"

\* C9: when the start POST answers with a status that is neither OK nor
\* 404, analyzeUrl rejects with an ApiError carrying that status and the
\* detail the server reported, or "Failed to start analysis" when the body
\* does not parse, and issues neither a legacy POST nor a status GET.
C9_StartFailure ==
    (startResp.status \notin {0, 200, 404}) =>
        /\ apc = "rejected"
        /\ aerr = ApiError(startResp.status,
                           IF startResp.parses THEN startResp.detail ELSE StartFailedMsg)
        /\ legacyPosts = 0 /\ gets = 0 /\ waits = 0

C9_Witness ==
    /\ startResp.status = 503 /\ startResp.parses /\ apc = "rejected"
    /\ aerr.message = "detail"

\* C10: a status response that is not OK neither ends the loop nor raises
\* a failure, but uses up one of the MAX_ATTEMPTS attempts: after it the
\* loop waits for the next attempt, or, when it was the last attempt, the
\* call ends with the timeout failure; MAX_ATTEMPTS responses that are all
\* not OK end in the timeout failure.
C10_NotOkConsumesAttempt ==
    /\ lastKind = "nonok" =>
          IF i < MAX_ATTEMPTS
          THEN apc \in {"wait", "get"} /\ aerr = NoErr
          ELSE apc = "rejected" /\ aerr = Timeout
    /\ apc = "wait" => gets = i
    /\ apc = "get" => gets = i + 1
    /\ i <= MAX_ATTEMPTS /\ gets <= MAX_ATTEMPTS
    /\ (Ended /\ Polling /\ seen = {"nonok"}) => gets = MAX_ATTEMPTS /\ aerr = Timeout

C10_Witness ==
    /\ Polling /\ seen = {"nonok"} /\ apc = "rejected" /\ aerr = Timeout

\* C25: a status response that reports completed without a result payload
\* does not end the call: it uses up one attempt like a pending one, and a
\* call that ended with such a response as its last one ended with the
\* timeout error, an ApiError with status 408, after MAX_ATTEMPTS GETs,
\* and returned nothing.
C25_CompletedWithoutResult ==
    /\ lastKind = "completed-noresult" =>
          /\ aret = Undefined
          /\ ~Truthy(task.result) /\ task.status = "completed"
          /\ IF i < MAX_ATTEMPTS
             THEN apc \in {"wait", "get"} /\ aerr = NoErr
             ELSE apc = "rejected" /\ aerr = Timeout /\ gets = MAX_ATTEMPTS
    /\ (Ended /\ Polling /\ seen = {"completed-noresult"})
       => apc = "rejected" /\ aerr = Timeout /\ gets = MAX_ATTEMPTS

\* Timed out on a task that every status response reported as completed
\* without a result.
C25_Witness ==
    /\ Polling /\ seen = {"completed-noresult"} /\ apc = "rejected"
    /\ aerr.status = 408 /\ gets = MAX_ATTEMPTS /\ task.status = "completed"

\* C16: every status GET follows one POLL_INTERVAL wait of its own.  No wait
\* is started and no GET issued before the task id is obtained; the waits
\* started equal the GETs issued while a GET is outstanding and after the
\* call has ended, and exceed them by one while a wait is running; each
\* wait is set to POLL_INTERVAL; the timeout failure is raised with
\* MAX_ATTEMPTS waits and MAX_ATTEMPTS GETs, no wait after the last response.
C16_WaitBeforeGet ==
    /\ gets <= waits /\ waits <= gets + 1
    /\ waits > 0 => Polling /\ delay = POLL_INTERVAL
    /\ apc = "wait" => waits = gets + 1
    /\ apc \in {"get", "resolved", "rejected"} => waits = gets
    /\ apc \in {"idle", "start", "legacy"} => waits = 0 /\ gets = 0
    /\ aerr = Timeout =>
           /\ apc = "rejected"
           /\ gets = MAX_ATTEMPTS /\ waits = MAX_ATTEMPTS
           /\ lastKind \in {"nonok", "pending", "running", "completed-noresult"}

\* The timeout after responses of several kinds.
C16_Witness ==
    /\ aerr = Timeout /\ waits = MAX_ATTEMPTS /\ gets = MAX_ATTEMPTS
    /\ seen = {"nonok", "pending", "completed-noresult"}

----------------------------------------------------------------------------
(* Properties of healthCheck, checked under ApiSpec *)

\* C22: healthCheck never rejects; it resolves with true exactly when the
\* GET was answered with an OK response, with false when the response was
\* not OK and with false when the request itself failed; before that it
\* has resolved with nothing.
C22_HealthNeverRejects ==
    /\ health \in {"idle", "fetching", "resolved"}
    /\ health = "resolved" =>
           /\ healthResp.kind \in {"response", "failed"}
           /\ healthRet = (healthResp.kind = "response" /\ healthResp.status \in 200..299)
    /\ health # "resolved" => healthRet = Undefined /\ healthResp.kind = "none"

\* Resolved with false after the request failed, while a call of
\* analyzeUrl is polling.
C22_Witness ==
    /\ health = "resolved" /\ healthRet = FALSE /\ healthResp.kind = "failed"
    /\ apc = "wait"

----------------------------------------------------------------------------
(* Properties of both mechanisms, checked under EitherSpec *)

\* A fetch or a body read of analyzeUrlStream has rejected.
StreamTransportFailed == response = "failed" \/ readError

\* C15: neither mechanism retries after a transport failure.  A rejected
\* fetch or body read of analyzeUrlStream rejects the call with that
\* failure, and every invocation has issued exactly one request; a rejected
\* start POST, status GET or legacy POST of analyzeUrl rejects the call with
\* that failure, after the requests issued up to it.  From then on no
\* request is issued, no read is made and the outcome stays, until a new
\* invocation starts.
C15_Failed ==
    /\ spc # "idle" => fetches = 1
    /\ StreamTransportFailed =>
           /\ spc = "rejected" /\ serr = <<NetworkError>> /\ sret = Undefined
           /\ ~done
           /\ response = "failed" => pos = 0 /\ ~readError
    /\ transport # "none" =>
           /\ apc = "rejected" /\ aerr = OtherError("TypeError")
           /\ posts = 1
           /\ transport = "start" => gets = 0 /\ waits = 0 /\ legacyPosts = 0
           /\ transport = "status" =>
                  /\ lastKind = "network" /\ legacyPosts = 0
                  /\ gets = i + 1 /\ waits = gets
                  /\ seen \subseteq {"network", "nonok", "pending", "running",
                                     "completed-noresult"}
           /\ transport = "legacy" => gets = 0 /\ waits = 0 /\ legacyPosts = 1
C15_Final ==
    /\ StreamTransportFailed =>
           \/ UNCHANGED <<spc, serr, sret, fetches, pos, done, logs, currentStep>>
           \/ spc' = "fetching" /\ fetches' = 1 /\ ~StreamTransportFailed'
    /\ transport # "none" =>
           UNCHANGED <<apc, aerr, aret, posts, gets, waits, legacyPosts>>
WithinBudget ==
    /\ posts <= 1 /\ legacyPosts <= 1
    /\ gets <= MAX_ATTEMPTS /\ waits <= MAX_ATTEMPTS /\ i <= MAX_ATTEMPTS
    /\ legacyPosts = 1 => gets = 0 /\ waits = 0

\* A call that has ended has one outcome: a value or an error, not both.
OneOutcome ==
    /\ apc = "resolved" => aret # Undefined /\ aerr = NoErr
    /\ apc = "rejected" => aret = Undefined /\ aerr # NoErr
    /\ apc \in {"idle", "start", "wait", "get", "legacy", "resolved", "rejected"}
    /\ apc \notin {"resolved", "rejected"} => aret = Undefined /\ aerr = NoErr
    /\ spc \in {"idle", "fetching", "reading", "resolved", "rejected"}
    /\ spc = "resolved" => sret # Undefined /\ serr = <<>>
    /\ spc = "rejected" => sret = Undefined /\ serr # <<>>
    /\ spc \in {"fetching", "reading"} => sret = Undefined /\ serr = <<>>

\* A call of one of the two mechanisms is under way.
Running ==
    \/ apc \in {"start", "wait", "get", "legacy"}
    \/ spc \in {"fetching", "reading"}

\* The outcome of analyzeUrl is not changed once the call has ended.
OutcomeStays == Ended => UNCHANGED <<apc, aret, aerr, posts, gets, waits, legacyPosts>>

\* C18: once started, each mechanism ends in one outcome.  When every
\* request, timer and read completes and the stream is closed in the end,
\* a started analyzeUrl resolves or rejects, within one start POST and
\* MAX_ATTEMPTS waits and GETs, or one legacy POST, and a started
\* analyzeUrlStream resolves or rejects; the outcome is a value or an error,
\* never both, and the outcome of analyzeUrl does not change afterwards.
C18_Terminates ==
    /\ []WithinBudget
    /\ []OneOutcome
    /\ [][OutcomeStays]_vars
    /\ (Running ~> ~Running)

\* The longest run of analyzeUrl: ended by the last of MAX_ATTEMPTS
\* status responses.
C18_Witness ==
    /\ apc = "resolved" /\ gets = MAX_ATTEMPTS /\ posts = 1
    /\ seen = {"running", "completed"}

----------------------------------------------------------------------------
(* Properties of the home page, checked under PageSpec *)

\* At most one handleSearch run is under way, the page is loading exactly
\* while it is, and a call of analyzeUrlStream under way is the one that
\* run awaits.
OneRun ==
    /\ running <= 1
    /\ running = 1 <=> state = "loading"
    /\ running = 0 <=> hpc = "none"
    /\ spc \in {"fetching", "reading"} => hpc = "awaiting" /\ state = "loading"
    /\ hpc = "delay" => spc = "resolved"

\* handleSearch starts only from idle, error or results, with no run under
\* way, and the page leaves loading only by the end of the run, after its
\* call of analyzeUrlStream has resolved or rejected.
StartsAndEnds ==
    /\ running' > running =>
           /\ state \in {"idle", "error", "results"} /\ running = 0
           /\ state' = "loading" /\ spc' = "fetching"
    /\ (state = "loading" /\ state' # "loading") =>
           /\ spc \in {"resolved", "rejected"} /\ UNCHANGED spc
           /\ running' = 0

\* C19: from the home page at most one analysis is in flight at any time.
\* handleSearch is triggered only while the page state is idle or error
\* (search bar) or results (rescan), never while it is loading, and the
\* page leaves loading only after the call of analyzeUrlStream in flight
\* has resolved or rejected.
C19_OneInFlight == []OneRun /\ [][StartsAndEnds]_vars

\* A rescan in flight: loading, the earlier results still held, the body
\* being read.
C19_Witness ==
    /\ state = "loading" /\ Truthy(results) /\ running = 1
    /\ spc = "reading" /\ pos > 0

\* In every state: results are there in state results, and an error is
\* there only in state error.
PageInvariant ==
    /\ state \in {"idle", "loading", "results", "error"}
    /\ state = "results" => results # Null
    /\ error # NoMessage => state = "error"

\* The step that ends a handleSearch run, with the message m(serr) in the
\* error slot when the call failed.
RunEnds(m(_)) ==
    (hpc # "none" /\ hpc' = "none") =>
        \/ /\ spc = "resolved"
           /\ state' = "results" /\ results' = sret /\ error' = NoMessage
        \/ /\ spc = "rejected"
           /\ state' = "error" /\ error' # NoMessage /\ error' = m(serr)

\* The message of the failure itself.
OwnMessage(err) == err
\* The message of the failure, the fixed text in place of an empty one.
MessageOrFixedText(err) == IF err = <<"">> THEN ApiUnavailable ELSE err

\* C20 as stated: every handleSearch run ends in state results, with the
\* payload analyzeUrlStream resolved with and a null error, or in state
\* error, with a non-null message taken from the failure; in every state
\* results is non-null in state results and error is null outside state
\* error.
C20_AsStated == []PageInvariant /\ [][RunEnds(OwnMessage)]_vars

\* C20 (amended): as above, the error being the message of the failure
\* or, when that message is empty, the fixed text t.home.apiUnavailable.
C20_RunEnds == []PageInvariant /\ [][RunEnds(MessageOrFixedText)]_vars

\* A run ended by an error message that carried no text.
C20_Witness ==
    /\ state = "error" /\ hpc = "none" /\ serr = <<"">> /\ error = ApiUnavailable

----------------------------------------------------------------------------
(* Home: saving the scan *)

\* The step calls mutateSaveScan; the step issues the POST of the save.
Saves == saved' > saved
Posts == saveRequests' > saveRequests

\* At most one save and one request per run; a save was triggered only by
\* a run whose analysis resolved, with the result it resolved with; a run
\* whose analysis failed has triggered none.
SavedOnlyAfterSuccess ==
    /\ saved \in {0, 1} /\ saveRequests \in {0, saved}
    /\ saved = 1 =>
           /\ hpc \in {"delay", "none"}
           /\ spc = "resolved" /\ Truthy(data) /\ data = sret
    /\ spc # "resolved" => saved = 0
    /\ state = "error" => saved = 0

\* A save is triggered by the step that takes up the resolved analysis and
\* by no other, and only when the user is authenticated; the request is
\* issued in that step, and only with a token in the store.
SaveStep(authenticated) ==
    /\ Saves => hpc = "awaiting" /\ spc = "resolved" /\ hpc' = "delay" /\ authenticated
    /\ Posts => Saves /\ Truthy(token)
    /\ (Saves /\ ~Truthy(token)) => ~Posts

----------------------------------------------------------------------------
(* Home: what the analysis depends on *)

\* The language of the page.
language == CHOOSE l \in StreamLangs : TRUE

\* A step that handleSearch(url, c) can take is a step that
\* handleSearch(url, c2) can take, whatever the competitor urls c and c2:
\* the state it leads to, the request in it included, is the same, and
\* with it everything that follows.  The request is made of the url and
\* the language.
SameForAnyCompetitor ==
    \A url \in StreamUrls, c \in CompetitorUrls :
        handleSearch(url, c) =>
            /\ \A c2 \in CompetitorUrls : handleSearch(url, c2)
            /\ spc' = "fetching" => endpoint' = <<url, language>>

\* C30: the analysis request issued by the home page depends only on the
\* submitted url and the language: for one url, any two competitor urls
\* handed to handleSearch lead to the same request and the same page
\* states.
C30_CompetitorIgnored == [][SameForAnyCompetitor]_vars

\* A run started from the search bar is waiting for its request, which
\* names the url and the language and nothing else.
C30_Witness ==
    /\ state = "loading" /\ hpc = "awaiting" /\ spc = "fetching"
    /\ endpoint \in {<<url, language>> : url \in StreamUrls}
    /\ results = Null

----------------------------------------------------------------------------
(* Properties of ApiKeysManager, checked under KeySpec *)

\* The step is the arrival of the response to the DELETE of d.
Answered(d) == d \in deletes /\ d \notin deletes'

\* C28: revoking a key k changes the list displayed only when the DELETE
\* is answered OK, and then removes exactly k: the list after the response
\* is the list displayed when it arrived without k, so that every other
\* key displayed at that moment is still displayed, the keys loaded by a
\* fetchKeys that completed while the DELETE was outstanding included.
RevokesExactly ==
    \A d \in deletes :
        Answered(d) =>
            IF lastDelete' = "ok" THEN keys' = without(keys, d.id) ELSE keys' = keys
C28_RevokesExactly == [][RevokesExactly]_vars

====
